---- MODULE Spec2Model ----
(***************************************************************************)
(* Render-loop state machine of src/src/lib.rs: the State struct (surface, *)
(* surface_config, window_size, clear_color), its methods resize, input,   *)
(* update and render, and the closure handed to event_loop.run.            *)
(*                                                                         *)
(* The windowing system and the GPU layer are the environment.  Each       *)
(* action is the delivery of one event to the closure; the result of       *)
(* surface.get_current_texture() is an input of the RedrawRequested event. *)
(* Environment assumptions, stated where they are used:                    *)
(*   - window.inner_size() of a freshly built window is non-zero;          *)
(*   - a surface that was never configured yields no texture;              *)
(*   - after control_flow.exit() the loop delivers no further event and    *)
(*     event_loop.run returns Ok(()).                                      *)
(*   - window.request_redraw() leaves a redraw owed until a RedrawRequested*)
(*     reaches this window; the windowing system may also send one unasked.*)
(* Numbers: u32 sizes are small naturals; f64 pointer positions are small  *)
(* integers; an f64 quotient is the canonical fraction it rounds, with     *)
(* den = 0 standing for the non-finite results of a division by zero.      *)
(***************************************************************************)
EXTENDS Integers, Naturals, Sequences, FiniteSets, TLC

\* ---------------------------------------------------------------- bounds
MaxDim == 2

\* u32 window dimensions, and the pointer positions delivered to the window:
\* x left of the window, inside it and beyond its right edge; y on the top
\* edge, inside the window and beyond its bottom edge.
Dims == 0..MaxDim
PositionsX == {0 - 1, 1, MaxDim + 1}
PositionsY == {0, 1, MaxDim + 1}

\* ------------------------------------------------------------ environment
ThisWindow == "this"
OtherWindow == "other"

\* Result of surface.get_current_texture(): Ok or a wgpu::SurfaceError.
SurfaceErrors == {"Lost", "OutOfMemory", "Timeout", "Outdated"}
Unconfigured == [width |-> 0, height |-> 0]

PhysicalSize(w, h) == [width |-> w, height |-> h]

\* ------------------------------------------------------------ f64 values
RECURSIVE GCD(_, _)
GCD(a, b) == IF b = 0 THEN a ELSE GCD(b, a % b)

Abs(x) == IF x < 0 THEN 0 - x ELSE x

Ratio(n, d) == [num |-> n, den |-> d]
Zero == Ratio(0, 1)
One == Ratio(1, 1)

\* x / (w as f64): IEEE division, +-inf or NaN when w = 0.
f64_div(x, w) ==
    IF w = 0
    THEN Ratio(IF x > 0 THEN 1 ELSE IF x < 0 THEN 0 - 1 ELSE 0, 0)
    ELSE LET g == GCD(Abs(x), w) IN Ratio(x \div g, w \div g)

Color(r, g, b, a) == [r |-> r, g |-> g, b |-> b, a |-> a]
BLACK == Color(Zero, Zero, Zero, One)

\* --------------------------------------------------------------- events
Ev(kind, wid, x, y, w, h, st, key, acq) ==
    [kind |-> kind, window_id |-> wid, x |-> x, y |-> y,
     width |-> w, height |-> h, state |-> st, key |-> key, acquire |-> acq]

NoEvent == Ev("None", "none", 0, 0, 0, 0, "none", "none", "none")
CursorMovedEv(wid, x, y) == Ev("CursorMoved", wid, x, y, 0, 0, "none", "none", "none")
CloseRequestedEv(wid) == Ev("CloseRequested", wid, 0, 0, 0, 0, "none", "none", "none")
KeyboardInputEv(wid, st, key) == Ev("KeyboardInput", wid, 0, 0, 0, 0, st, key, "none")
ResizedEv(wid, w, h) == Ev("Resized", wid, 0, 0, w, h, "none", "none", "none")
RedrawRequestedEv(wid, acq) == Ev("RedrawRequested", wid, 0, 0, 0, 0, "none", "none", acq)
FocusedEv(wid) == Ev("Focused", wid, 0, 0, 0, 0, "none", "none", "none")
AboutToWaitEv == Ev("AboutToWait", "none", 0, 0, 0, 0, "none", "none", "none")
NewEventsEv == Ev("NewEvents", "none", 0, 0, 0, 0, "none", "none", "none")

WindowEventKinds ==
    {"CursorMoved", "CloseRequested", "KeyboardInput", "Resized",
     "RedrawRequested", "Focused"}

\* ------------------------------------------------------------------ state
VARIABLES
    surface,          \* size the GPU surface is configured with, or Unconfigured
    surface_config,   \* State.surface_config (width, height)
    window_size,      \* State.window_size
    clear_color,      \* State.clear_color
    exit,             \* control_flow.exit() has been called
    calls,            \* calls made while dispatching the last event, in order
    passes,           \* clear colours of the render passes of the last event
    redraw_requested, \* request_redraw() was called, RedrawRequested is due
    handled,          \* what State::input returned for the last event
    lastEvent,        \* the event dispatched last
    reported_size,    \* size the window reported last (inner_size or Resized)
    reported_nonzero, \* last reported size with both dimensions non-zero
    result            \* what run() returned, "pending" while the loop runs

vars == <<surface, surface_config, window_size, clear_color, exit,
          calls, passes,
          redraw_requested, handled, lastEvent, reported_size, reported_nonzero, result>>

\* ------------------------------------------------- the State struct's code
Call(op, w, h) == [op |-> op, width |-> w, height |-> h]

log(m, op, w, h) == [m EXCEPT !.calls = Append(@, Call(op, w, h))]

\* State::new: the fields built from window.inner_size(); the surface is
\* not configured here.
new(inner_size) ==
    [surface |-> Unconfigured,
     surface_config |-> [width |-> inner_size.width, height |-> inner_size.height],
     window_size |-> inner_size,
     clear_color |-> BLACK]

\* self.surface.configure(&self.device, &self.surface_config)
configure(m) ==
    [log(m, "configure", m.surface_config.width, m.surface_config.height)
        EXCEPT !.surface = [width |-> m.surface_config.width,
                            height |-> m.surface_config.height]]

\* resize writing the new width into surface_config.height
resize_swapped(m, new_size) ==
    LET m0 == log(m, "resize", new_size.width, new_size.height) IN
    IF new_size.width > 0 /\ new_size.height > 0
    THEN configure([m0 EXCEPT !.window_size = new_size,
                              !.surface_config.width = new_size.height,
                              !.surface_config.height = new_size.width])
    ELSE m0

\* resize guarded by `||` instead of `&&`
resize_or(m, new_size) ==
    LET m0 == log(m, "resize", new_size.width, new_size.height) IN
    IF new_size.width > 0 \/ new_size.height > 0
    THEN configure([m0 EXCEPT !.window_size = new_size,
                              !.surface_config.width = new_size.width,
                              !.surface_config.height = new_size.height])
    ELSE m0

\* resize without the zero-size guard
resize_unguarded(m, new_size) ==
    LET m0 == log(m, "resize", new_size.width, new_size.height) IN
    configure([m0 EXCEPT !.window_size = new_size,
                         !.surface_config.width = new_size.width,
                         !.surface_config.height = new_size.height])

\* resize configuring the surface before it updates surface_config
resize_configure_first(m, new_size) ==
    LET m0 == log(m, "resize", new_size.width, new_size.height) IN
    IF new_size.width > 0 /\ new_size.height > 0
    THEN [configure(m0) EXCEPT !.window_size = new_size,
                               !.surface_config.width = new_size.width,
                               !.surface_config.height = new_size.height]
    ELSE m0

resize(m, new_size) ==
    LET m0 == log(m, "resize", new_size.width, new_size.height) IN
    IF new_size.width > 0 /\ new_size.height > 0
    THEN configure([m0 EXCEPT !.window_size = new_size,
                              !.surface_config.width = new_size.width,
                              !.surface_config.height = new_size.height])
    ELSE m0

\* input dividing x by the height and y by the width
input_swapped(m, event) ==
    LET m0 == log(m, "input", 0, 0) IN
    IF event.kind = "CursorMoved"
    THEN [m0 EXCEPT !.clear_color =
                        Color(f64_div(event.x, m.window_size.height),
                              f64_div(event.y, m.window_size.width),
                              One, One),
                    !.handled = TRUE]
    ELSE [m0 EXCEPT !.handled = FALSE]

\* input taking every event for a pointer move
input_any_event(m, event) ==
    LET m0 == log(m, "input", 0, 0) IN
    [m0 EXCEPT !.clear_color =
                   Color(f64_div(event.x, m.window_size.width),
                         f64_div(event.y, m.window_size.height),
                         One, One),
               !.handled = event.kind = "CursorMoved"]

\* input returning false after a pointer move
input_never_handled(m, event) ==
    LET m0 == log(m, "input", 0, 0) IN
    IF event.kind = "CursorMoved"
    THEN [m0 EXCEPT !.clear_color =
                        Color(f64_div(event.x, m.window_size.width),
                              f64_div(event.y, m.window_size.height),
                              One, One),
                    !.handled = FALSE]
    ELSE [m0 EXCEPT !.handled = FALSE]

\* input whose fallback arm returns true
input_always_handled(m, event) ==
    LET m0 == log(m, "input", 0, 0) IN
    IF event.kind = "CursorMoved"
    THEN [m0 EXCEPT !.clear_color =
                        Color(f64_div(event.x, m.window_size.width),
                              f64_div(event.y, m.window_size.height),
                              One, One),
                    !.handled = TRUE]
    ELSE [m0 EXCEPT !.handled = TRUE]

input(m, event) ==
    LET m0 == log(m, "input", 0, 0) IN
    IF event.kind = "CursorMoved"
    THEN [m0 EXCEPT !.clear_color =
                        Color(f64_div(event.x, m.window_size.width),
                              f64_div(event.y, m.window_size.height),
                              One, One),
                    !.handled = TRUE]
    ELSE [m0 EXCEPT !.handled = FALSE]

update(m) == log(m, "update", 0, 0)

\* render without the `?` on get_current_texture()
render_unchecked(m, acquire) ==
    LET m0 == log(log(m, "render", 0, 0), "get_current_texture", 0, 0) IN
    [log(log(log(log(m0, "begin_render_pass", 0, 0),
                 "draw", 0, 0), "submit", 0, 0), "present", 0, 0)
        EXCEPT !.passes = Append(m.passes, m.clear_color), !.ret = "Ok"]

\* render presenting the texture before the commands are submitted
render_present_first(m, acquire) ==
    LET m0 == log(log(m, "render", 0, 0), "get_current_texture", 0, 0) IN
    IF acquire # "Ok"
    THEN [m0 EXCEPT !.ret = acquire]
    ELSE [log(log(log(log(m0, "begin_render_pass", 0, 0),
                      "draw", 0, 0), "present", 0, 0), "submit", 0, 0)
             EXCEPT !.passes = Append(m.passes, m.clear_color), !.ret = "Ok"]

\* State::render; acquire is what get_current_texture() returns.
render(m, acquire) ==
    LET m0 == log(log(m, "render", 0, 0), "get_current_texture", 0, 0) IN
    IF acquire # "Ok"
    THEN [m0 EXCEPT !.ret = acquire]
    ELSE [log(log(log(log(m0, "begin_render_pass", 0, 0),
                      "draw", 0, 0), "submit", 0, 0), "present", 0, 0)
             EXCEPT !.passes = Append(m.passes, m.clear_color), !.ret = "Ok"]

\* --------------------------------------------------- the event-loop closure
control_flow_exit(m) == [log(m, "exit", 0, 0) EXCEPT !.exit = TRUE]

\* the AboutToWait arm requesting the redraw twice
request_redraw_twice(m) ==
    [log(log(m, "request_redraw", 0, 0), "request_redraw", 0, 0)
        EXCEPT !.redraw_requested = TRUE]

\* the AboutToWait arm requesting no redraw
request_redraw_dropped(m) == m

\* state.window.request_redraw()
request_redraw(m) ==
    [log(m, "request_redraw", 0, 0) EXCEPT !.redraw_requested = TRUE]

\* the match on render's result without its Lost arm
render_result_lost_logged(m1) ==
    CASE m1.ret = "Ok" -> m1
      [] m1.ret = "OutOfMemory" -> control_flow_exit(m1)
      [] OTHER -> log(m1, "eprintln", 0, 0)

\* the match on render's result without its OutOfMemory arm
render_result_oom_logged(m1) ==
    CASE m1.ret = "Ok" -> m1
      [] m1.ret = "Lost" -> resize(m1, m1.window_size)
      [] OTHER -> log(m1, "eprintln", 0, 0)

\* the match on render's result recovering from every error by a resize
render_result_always_resize(m1) ==
    CASE m1.ret = "Ok" -> m1
      [] m1.ret = "OutOfMemory" -> control_flow_exit(m1)
      [] OTHER -> resize(m1, m1.window_size)

\* the match on render's result exiting on every error but Lost
render_result_other_exits(m1) ==
    CASE m1.ret = "Ok" -> m1
      [] m1.ret = "Lost" -> resize(m1, m1.window_size)
      [] OTHER -> control_flow_exit(m1)

\* match state.render() { ... }; m1 is the machine render left
render_result(m1) ==
    CASE m1.ret = "Ok" -> m1
      [] m1.ret = "Lost" -> resize(m1, m1.window_size)
      [] m1.ret = "OutOfMemory" -> control_flow_exit(m1)
      [] OTHER -> log(m1, "eprintln", 0, 0)

\* the redraw arm calling render before update
redraw_render_first(m, acquire) == render_result(update(render(m, acquire)))

\* WindowEvent::RedrawRequested arm
redraw(m, acquire) == render_result(render(update(m), acquire))

\* the match exiting on Escape whether pressed or released
window_event_any_escape(m, event) ==
    CASE event.kind = "CloseRequested" -> control_flow_exit(m)
      [] event.kind = "KeyboardInput" /\ event.key = "Escape" ->
            control_flow_exit(m)
      [] event.kind = "Resized" ->
            resize(m, PhysicalSize(event.width, event.height))
      [] event.kind = "RedrawRequested" -> redraw(m, event.acquire)
      [] OTHER -> m

\* match event { ... } under `if !state.input(event)`
window_event(m, event) ==
    CASE event.kind = "CloseRequested" -> control_flow_exit(m)
      [] event.kind = "KeyboardInput" /\ event.state = "Pressed"
            /\ event.key = "Escape" -> control_flow_exit(m)
      [] event.kind = "Resized" ->
            resize(m, PhysicalSize(event.width, event.height))
      [] event.kind = "RedrawRequested" -> redraw(m, event.acquire)
      [] OTHER -> m

\* if !state.input(event) { match event { ... } }; m1 is the machine input left
unless_handled(m1, event) ==
    IF ~m1.handled THEN window_event(m1, event) ELSE m1

event_handler(m, event) ==
    IF event.kind \in WindowEventKinds /\ event.window_id = ThisWindow
    THEN unless_handled(input(m, event), event)
    ELSE IF event.kind = "AboutToWait" THEN request_redraw(m)
    ELSE m

\* ------------------------------------------------------------------- Init
Init ==
    \E w \in Dims \ {0}, h \in Dims \ {0} :
        LET s == new(PhysicalSize(w, h)) IN
        /\ surface = s.surface
        /\ surface_config = s.surface_config
        /\ window_size = s.window_size
        /\ clear_color = s.clear_color
        /\ exit = FALSE
        /\ calls = <<>>
        /\ passes = <<>>
        /\ redraw_requested = FALSE
        /\ handled = FALSE
        /\ lastEvent = NoEvent
        /\ reported_size = PhysicalSize(w, h)
        /\ reported_nonzero = PhysicalSize(w, h)
        /\ result = "pending"

\* ---------------------------------------------------------------- actions
\* What the closure starts an event with: the State it owns and
\* control_flow, no call made and nothing returned yet.
Machine ==
    [surface |-> surface, surface_config |-> surface_config,
     window_size |-> window_size, clear_color |-> clear_color,
     exit |-> exit, calls |-> <<>>, passes |-> <<>>,
     redraw_requested |-> redraw_requested, handled |-> FALSE, ret |-> "Unit"]

\* The state the dispatch of event leaves, m being the machine the closure
\* returned with.
Dispatched(m, event) ==
    LET rep == event.kind = "Resized" /\ event.window_id = ThisWindow
        sz == PhysicalSize(event.width, event.height)
    IN /\ surface' = m.surface
       /\ surface_config' = m.surface_config
       /\ window_size' = m.window_size
       /\ clear_color' = m.clear_color
       /\ exit' = m.exit
       /\ calls' = m.calls
       /\ passes' = m.passes
       /\ redraw_requested' =
             IF event.kind = "RedrawRequested" /\ event.window_id = ThisWindow
             THEN FALSE ELSE m.redraw_requested
       /\ handled' = m.handled
       /\ reported_size' = IF rep THEN sz ELSE reported_size
       /\ reported_nonzero' =
             IF rep /\ sz.width > 0 /\ sz.height > 0
             THEN sz ELSE reported_nonzero
       /\ result' = result

\* event_loop.run hands the event to the closure, until exit was signalled.
Deliver(event) ==
    /\ ~exit
    /\ result = "pending"
    /\ lastEvent' = event
    /\ \E m \in {event_handler(Machine, event)} : Dispatched(m, event)

\* What get_current_texture() can return for the surface as it is.
Acquirable ==
    IF surface = Unconfigured THEN SurfaceErrors ELSE {"Ok"} \cup SurfaceErrors

\* The events the windowing system can deliver for this window.
CursorMovedEvents ==
    {CursorMovedEv(ThisWindow, x, y) : x \in PositionsX, y \in PositionsY}

KeyboardInputEvents ==
    {KeyboardInputEv(ThisWindow, "Pressed", "Escape"),
     KeyboardInputEv(ThisWindow, "Released", "Escape"),
     KeyboardInputEv(ThisWindow, "Pressed", "KeyA")}

ResizedEvents == {ResizedEv(ThisWindow, w, h) : w \in Dims, h \in Dims}

RedrawRequestedEvents ==
    {RedrawRequestedEv(ThisWindow, acq) : acq \in {"Ok"} \cup SurfaceErrors}

\* The same window events carrying another window's id.
OtherWindowEvents ==
    {CursorMovedEv(OtherWindow, 1, 1), CloseRequestedEv(OtherWindow),
     ResizedEv(OtherWindow, 1, 1),
     RedrawRequestedEv(OtherWindow, "OutOfMemory")}

CloseRequestedThis == CloseRequestedEv(ThisWindow)
FocusedThis == FocusedEv(ThisWindow)

CursorMoved == \E e \in CursorMovedEvents : Deliver(e)

CloseRequested == Deliver(CloseRequestedThis)

KeyboardInput == \E e \in KeyboardInputEvents : Deliver(e)

Resized == \E e \in ResizedEvents : Deliver(e)

RedrawRequested ==
    \E e \in RedrawRequestedEvents : e.acquire \in Acquirable /\ Deliver(e)

Focused == Deliver(FocusedThis)

\* The guard `window_id == state.window.id()` fails and the closure
\* ignores the event.
OtherWindowEvent == \E e \in OtherWindowEvents : Deliver(e)

AboutToWait == Deliver(AboutToWaitEv)

NewEvents == Deliver(NewEventsEv)

\* event_loop.run(...) returns once exit was signalled; map_err keeps Ok.
RunReturns ==
    /\ exit
    /\ result = "pending"
    /\ result' = "Ok"
    /\ UNCHANGED <<surface, surface_config, window_size, clear_color, exit,
                   calls, passes, redraw_requested, handled, lastEvent,
                   reported_size, reported_nonzero>>

Next ==
    \/ CursorMoved
    \/ CloseRequested
    \/ KeyboardInput
    \/ Resized
    \/ RedrawRequested
    \/ Focused
    \/ OtherWindowEvent
    \/ AboutToWait
    \/ NewEvents
    \/ RunReturns

Spec == Init /\ [][Next]_vars

\* The windowing system delivers the RedrawRequested it owes this window for
\* a request_redraw(). Deliver alone sets lastEvent, so a step of Next is one
\* of these exactly when it is a RedrawRequested step taken while a redraw is
\* requested, and one is possible whenever the loop has not been told to exit.
RequestedRedraw ==
    /\ redraw_requested
    /\ ~exit
    /\ result = "pending"
    /\ lastEvent' \in RedrawRequestedEvents

\* The windowing system signals AboutToWait once its queue is drained; a step
\* of Next is one of these exactly when it is an AboutToWait step.
IdleSignal ==
    /\ ~exit
    /\ result = "pending"
    /\ lastEvent' = AboutToWaitEv

\* The event loop under a windowing system that keeps signalling AboutToWait
\* and delivers a RedrawRequested for every redraw requested.
LiveSpec ==
    /\ Init
    /\ [][Next]_vars
    /\ WF_lastEvent(IdleSignal)
    /\ WF_lastEvent(RequestedRedraw)

\* ================================================================ claims
Count(seq, op) == Cardinality({i \in DOMAIN seq : seq[i].op = op})

\* The step dispatches event e (RunReturns needs exit, so it is no such step).
Dispatches(e) == ~exit /\ lastEvent' = e

SizeOf(sz) == [width |-> sz.width, height |-> sz.height]
NonZero(sz) == sz.width > 0 /\ sz.height > 0

\* C1: a resize event with both dimensions non-zero sets WindowSize and
\* SurfaceConfig to exactly (w,h) and issues exactly one surface
\* configuration, which carries (w,h).
C1_ResizeNonZero ==
    [][\A w \in Dims \ {0}, h \in Dims \ {0} :
          Dispatches(ResizedEv(ThisWindow, w, h)) =>
             /\ window_size' = PhysicalSize(w, h)
             /\ surface_config' = PhysicalSize(w, h)
             /\ Count(calls', "configure") = 1
             /\ \E i \in DOMAIN calls' : calls'[i] = Call("configure", w, h)
             /\ surface' = PhysicalSize(w, h)]_vars

C1_Witness ==
    /\ lastEvent = ResizedEv(ThisWindow, 2, 1)
    /\ window_size = PhysicalSize(2, 1)
    /\ surface_config = PhysicalSize(2, 1)
    /\ surface = PhysicalSize(2, 1)
    /\ Count(calls, "configure") = 1

\* C2: a resize event with a zero dimension leaves WindowSize, SurfaceConfig
\* and the configured surface unchanged and issues no surface configuration.
C2_ResizeZeroIgnored ==
    [][\A w \in Dims, h \in Dims :
          ((w = 0 \/ h = 0) /\ Dispatches(ResizedEv(ThisWindow, w, h))) =>
             /\ UNCHANGED <<window_size, surface_config, surface>>
             /\ Count(calls', "configure") = 0]_vars

\* resize(0,2) after an accepted resize(2,2): the size stays (2,2)
C2_Witness ==
    /\ lastEvent = ResizedEv(ThisWindow, 0, 2)
    /\ Count(calls, "resize") = 1
    /\ Count(calls, "configure") = 0
    /\ window_size = PhysicalSize(2, 2)
    /\ surface = PhysicalSize(2, 2)

C4_Original ==
    surface # Unconfigured => surface = reported_size

\* C4 amended: once the surface has been configured, the size it was last
\* configured with equals the last size the window reported that was non-zero
\* in both dimensions; a report with a zero dimension changes nothing.
C4_ConfiguredMatchesLastNonZero ==
    surface # Unconfigured => surface = reported_nonzero

C4_Witness ==
    /\ surface = PhysicalSize(2, 1)
    /\ reported_nonzero = PhysicalSize(2, 1)
    /\ reported_size = PhysicalSize(0, 1)

C8_Original ==
    (result # "pending" /\ lastEvent = RedrawRequestedEv(ThisWindow, "OutOfMemory"))
        => result = "Err"

\* C9: a close request and a pressed Escape key, addressed to this window,
\* are not consumed by input and signal termination, whatever the state.
C9_CloseAndEscapeExit ==
    [][\A e \in {CloseRequestedEv(ThisWindow),
                 KeyboardInputEv(ThisWindow, "Pressed", "Escape")} :
          Dispatches(e) =>
             /\ ~handled'
             /\ exit'
             /\ Count(calls', "exit") = 1]_vars

\* Escape pressed after a pointer move and an ignored resize, the surface
\* never configured
C9_Witness ==
    /\ lastEvent = KeyboardInputEv(ThisWindow, "Pressed", "Escape")
    /\ exit
    /\ ~handled
    /\ Count(calls, "exit") = 1
    /\ clear_color # BLACK
    /\ ~NonZero(reported_size)
    /\ surface = Unconfigured

\* C10: a pointer move at (x,y) with WindowSize (W,H) sets ClearColor to
\* (x/W, y/H, 1, 1), W and H being the last accepted size; a position left of
\* or beyond the window gives a channel below 0 or above 1.
C10_PointerNormalized ==
    [][\A x \in PositionsX, y \in PositionsY :
          Dispatches(CursorMovedEv(ThisWindow, x, y)) =>
             LET c == clear_color' IN
             /\ window_size = reported_nonzero
             /\ c.r.den > 0
             /\ c.r.num * window_size.width = x * c.r.den
             /\ c.g.den > 0
             /\ c.g.num * window_size.height = y * c.g.den
             /\ c.b = One
             /\ c.a = One
             /\ (x > window_size.width => c.r.num > c.r.den)
             /\ (x < 0 => c.r.num < 0)
             /\ (y > window_size.height => c.g.num > c.g.den)]_vars

\* WindowSize (2,2) and the pointer at its centre (1,1): (1/2, 1/2, 1, 1)
C10_Witness ==
    /\ lastEvent = CursorMovedEv(ThisWindow, 1, 1)
    /\ window_size = PhysicalSize(2, 2)
    /\ surface = PhysicalSize(2, 2)
    /\ clear_color = Color(Ratio(1, 2), Ratio(1, 2), One, One)

\* C11: input returns false for every event that is no pointer move and
\* leaves ClearColor alone; ClearColor starts as opaque black and changes
\* only in the dispatch of a pointer move to this window, which input handles.
C11_ColorOnlyByPointer ==
    /\ clear_color = BLACK
    /\ [][/\ \A e \in KeyboardInputEvents \cup ResizedEvents
                     \cup RedrawRequestedEvents
                     \cup {CloseRequestedThis, FocusedThis} :
                Dispatches(e) =>
                   /\ ~handled'
                   /\ calls'[1] = Call("input", 0, 0)
                   /\ clear_color' = clear_color
          /\ clear_color' # clear_color =>
                /\ ~exit
                /\ lastEvent' \in CursorMovedEvents
                /\ handled']_vars

\* a key event after a pointer move: not handled, the colour kept
C11_Witness ==
    /\ lastEvent = KeyboardInputEv(ThisWindow, "Pressed", "KeyA")
    /\ ~handled
    /\ calls = <<Call("input", 0, 0)>>
    /\ clear_color = Color(Ratio(1, 2), One, One, One)

\* C12: the dispatch of AboutToWait requests exactly one redraw, and the
\* dispatch of any other event requests none.
C12_OneRedrawPerIdle ==
    Count(calls, "request_redraw") = (IF lastEvent = AboutToWaitEv THEN 1 ELSE 0)

C12_Witness ==
    /\ lastEvent = AboutToWaitEv
    /\ calls = <<Call("request_redraw", 0, 0)>>
    /\ surface # Unconfigured

\* C13: the width and height of WindowSize equal those of SurfaceConfig in
\* every state.
C13_WindowSizeMirrorsConfig ==
    /\ window_size.width = surface_config.width
    /\ window_size.height = surface_config.height

\* after an accepted resize to (2,1), an ignored resize and a Lost recovery
C13_Witness ==
    /\ lastEvent = RedrawRequestedEv(ThisWindow, "Lost")
    /\ window_size = PhysicalSize(2, 1)
    /\ surface_config = PhysicalSize(2, 1)
    /\ ~NonZero(reported_size)

\* C14: WindowSize, SurfaceConfig and the configured surface change, and the
\* surface is configured, only inside resize, reached from a Resized event or
\* a Lost redraw; pointer, key, close, focus and idle events and redraws that
\* end Ok, OutOfMemory or in another error leave them alone.
C14_OnlyResizeChangesSizes ==
    [][/\ (\/ window_size' # window_size
           \/ surface_config' # surface_config
           \/ surface' # surface
           \/ (~exit /\ Count(calls', "configure") > 0)) =>
              /\ ~exit
              /\ Count(calls', "resize") = 1
              /\ lastEvent' \in ResizedEvents
                                 \cup {RedrawRequestedEv(ThisWindow, "Lost")}
       /\ \A e \in CursorMovedEvents \cup KeyboardInputEvents
                     \cup (RedrawRequestedEvents
                              \ {RedrawRequestedEv(ThisWindow, "Lost")})
                     \cup {CloseRequestedThis, FocusedThis, AboutToWaitEv} :
              Dispatches(e) =>
                 /\ UNCHANGED <<window_size, surface_config, surface>>
                 /\ Count(calls', "resize") = 0
                 /\ Count(calls', "configure") = 0]_vars

\* a presented frame after an accepted resize to (1,2): sizes as they were
C14_Witness ==
    /\ lastEvent = RedrawRequestedEv(ThisWindow, "Ok")
    /\ Count(calls, "configure") = 0
    /\ window_size = PhysicalSize(1, 2)
    /\ surface = PhysicalSize(1, 2)

\* C15: a redraw whose acquisition fails with Timeout or Outdated logs the
\* error and nothing more: no state change, no configuration, one single
\* acquisition attempt, no termination.
C15_OtherErrorLogged ==
    [][\A e \in {RedrawRequestedEv(ThisWindow, "Timeout"),
                 RedrawRequestedEv(ThisWindow, "Outdated")} :
          Dispatches(e) =>
             /\ calls' = <<Call("input", 0, 0), Call("update", 0, 0),
                           Call("render", 0, 0),
                           Call("get_current_texture", 0, 0),
                           Call("eprintln", 0, 0)>>
             /\ UNCHANGED <<window_size, surface_config, clear_color, surface>>
             /\ ~exit']_vars

C15_Witness ==
    /\ lastEvent = RedrawRequestedEv(ThisWindow, "Timeout")
    /\ Count(calls, "eprintln") = 1
    /\ Count(calls, "get_current_texture") = 1
    /\ ~exit
    /\ surface # Unconfigured
    /\ clear_color # BLACK

\* C16: the dispatch of a redraw request to this window calls update once and
\* then render once, which acquires once; no other dispatch calls update or
\* render, so no dispatch submits more frames than it has redraw requests.
C16_OneUpdateThenOneRender ==
    /\ lastEvent \in RedrawRequestedEvents =>
          /\ Len(calls) >= 4
          /\ calls[2] = Call("update", 0, 0)
          /\ calls[3] = Call("render", 0, 0)
          /\ calls[4] = Call("get_current_texture", 0, 0)
          /\ Count(calls, "update") = 1
          /\ Count(calls, "render") = 1
          /\ Count(calls, "get_current_texture") = 1
          /\ Count(calls, "submit") <= 1
    /\ lastEvent \notin RedrawRequestedEvents =>
          /\ Count(calls, "update") = 0
          /\ Count(calls, "render") = 0
          /\ Count(calls, "get_current_texture") = 0
          /\ Count(calls, "submit") = 0

C16_Witness ==
    /\ lastEvent = RedrawRequestedEv(ThisWindow, "Ok")
    /\ calls[2] = Call("update", 0, 0)
    /\ calls[3] = Call("render", 0, 0)
    /\ Count(calls, "submit") = 1

\* C17: a pointer move to this window is handled by input and nothing else is
\* called for it: no resize, no configuration, no render, no termination.
C17_PointerConsumed ==
    [][\A e \in CursorMovedEvents :
          Dispatches(e) =>
             /\ handled'
             /\ calls' = <<Call("input", 0, 0)>>
             /\ UNCHANGED <<window_size, surface_config, surface, exit>>]_vars

C17_Witness ==
    /\ lastEvent \in CursorMovedEvents
    /\ handled
    /\ calls = <<Call("input", 0, 0)>>
    /\ ~exit
    /\ surface = PhysicalSize(1, 1)

\* The events whose dispatch signals termination.
TerminatingEvents ==
    {CloseRequestedThis, KeyboardInputEv(ThisWindow, "Pressed", "Escape"),
     RedrawRequestedEv(ThisWindow, "OutOfMemory")}

\* C19: termination is signalled only in the dispatch of a close request, a
\* pressed Escape or a redraw ending OutOfMemory, each for this window.
C19_ExitOnlyOnTerminatingEvents ==
    (exit \/ Count(calls, "exit") > 0) => lastEvent \in TerminatingEvents

\* Escape released after an ignored resize: the loop goes on
C19_Witness ==
    /\ lastEvent = KeyboardInputEv(ThisWindow, "Released", "Escape")
    /\ ~exit
    /\ Count(calls, "exit") = 0
    /\ ~NonZero(reported_size)

\* The calls of a redraw dispatch whose render presents a frame.
FrameCalls ==
    <<Call("input", 0, 0), Call("update", 0, 0), Call("render", 0, 0),
      Call("get_current_texture", 0, 0), Call("begin_render_pass", 0, 0),
      Call("draw", 0, 0), Call("submit", 0, 0), Call("present", 0, 0)>>

\* C18: inside render, a failed acquisition ends the call with that failure
\* before any pass, draw, submission or presentation; a successful one is
\* followed by exactly one render pass clearing to the current ClearColor
\* with one draw, then one submission, then one presentation.
C18_RenderSequence ==
    [][/\ \A e \in RedrawRequestedEvents \ {RedrawRequestedEv(ThisWindow, "Ok")} :
             Dispatches(e) =>
                /\ passes' = <<>>
                /\ Count(calls', "get_current_texture") = 1
                /\ Count(calls', "begin_render_pass") = 0
                /\ Count(calls', "draw") = 0
                /\ Count(calls', "submit") = 0
                /\ Count(calls', "present") = 0
                /\ e.acquire = "Lost" => Count(calls', "resize") = 1
                /\ e.acquire = "OutOfMemory" => exit'
                /\ e.acquire \in {"Timeout", "Outdated"} =>
                      Count(calls', "eprintln") = 1
       /\ Dispatches(RedrawRequestedEv(ThisWindow, "Ok")) =>
             /\ calls' = FrameCalls
             /\ passes' = <<clear_color>>
             /\ clear_color' = clear_color]_vars

\* a frame cleared to the colour a pointer move at (1,1) left in a 1x2 window
C18_Witness ==
    /\ lastEvent = RedrawRequestedEv(ThisWindow, "Ok")
    /\ calls = FrameCalls
    /\ passes = <<Color(One, Ratio(1, 2), One, One)>>
    /\ clear_color = Color(One, Ratio(1, 2), One, One)

\* C20: under a windowing system that keeps signalling AboutToWait and
\* delivers the redraws requested, a loop that is never told to exit attempts
\* render again and again, whatever the earlier attempts returned.
C20_RenderInfinitelyOften ==
    []~exit =>
        []<><<lastEvent' \in RedrawRequestedEvents
              /\ Count(calls', "render") = 1>>_vars

\* a render attempt that timed out on a configured surface, no redraw owed
C20_Witness ==
    /\ lastEvent = RedrawRequestedEv(ThisWindow, "Timeout")
    /\ Count(calls, "render") = 1
    /\ ~redraw_requested
    /\ ~exit
    /\ surface # Unconfigured

====
